---- MODULE Spec2Model ----
(***************************************************************************)
(* Forecast-generation pipeline of backend/main.py: generate_forecast with *)
(* its cascade historical store -> provider (TimeGPT) -> synthetic         *)
(* forecast -> outer fallback (market-data API, request payload).          *)
(*                                                                         *)
(* Timestamps are whole seconds.  Floats are exact rationals <<n, d>>,     *)
(* d > 0, in lowest terms.                                                 *)
(***************************************************************************)
EXTENDS Integers, Sequences, FiniteSets, TLC

VARIABLES
    request,          \* ForecastRequest: market_data, horizon, interval_minutes, confidence_levels
    nixtla_client,    \* TRUE iff the TimeGPT client was configured at start-up
    csv,              \* rows of app/data/multi_market_data.csv
    now,              \* wall clock (seconds) read by datetime.now()
    pc,               \* position inside generate_forecast
    historical_data,  \* list returned by generate_energy_market_data(days=7)
    price_data,       \* energy_data / hash_data / token_data: quantity -> list of {ds, y}
    price_df,         \* energy_df / hash_df / token_df: quantity -> rows of {ds, y}
    backfilled,       \* TRUE once the "not enough data" branch has run
    provider_env,     \* how the provider answers this request: column naming and values
    provider_forecast,\* energy_forecast / hash_forecast / token_forecast
    provider_calls,   \* quantity -> number of nixtla_client.forecast calls made
    provider_failed,  \* TRUE once the inner except handler was entered
    outer_entered,    \* TRUE once the outer except handler was entered
    mara_calls,       \* number of GETs sent to the market-data API
    mara_outcome,     \* what the market-data API call did
    synth_calls,      \* number of executions of generate_synthetic_forecast_all_types
    synth_df,         \* the DataFrame handed to the last synthetic execution
    synth_trend,      \* energy/hash/token trend computed by the last synthetic execution
    outcome,          \* "pending", "response" or "error" (an exception left the handler)
    response,         \* the ForecastResponse returned
    arbitrage_pc,     \* position of a direct call of detect_arbitrage_opportunities
    arbitrage_input,  \* its argument
    opportunities,    \* its result
    anomaly_pc,       \* position inside detect_anomalies (the anomaly-detection endpoint)
    anomalies_df,     \* rows returned by nixtla_client.detect_anomalies
    anomaly_result    \* what the anomaly-detection endpoint returned

\* the state of one run of generate_forecast
forecast_vars == <<csv, now, pc, historical_data, price_data, price_df, backfilled,
                   provider_env, provider_forecast, provider_calls, provider_failed,
                   outer_entered, mara_calls, mara_outcome, synth_calls, synth_df,
                   synth_trend, outcome, response>>

arbitrage_vars == <<arbitrage_pc, arbitrage_input, opportunities>>

anomaly_vars == <<anomaly_pc, anomalies_df, anomaly_result>>

vars == <<request, nixtla_client, csv, now, pc, historical_data, price_data, price_df,
          backfilled, provider_env, provider_forecast, provider_calls, provider_failed,
          outer_entered, mara_calls, mara_outcome, synth_calls, synth_df, synth_trend,
          outcome, response, arbitrage_vars, anomaly_vars>>

NULL == "None"

-----------------------------------------------------------------------------
(* Float arithmetic as exact rationals                                      *)

Abs(x) == IF x < 0 THEN -x ELSE x

RECURSIVE GCD(_, _)
GCD(a, b) == IF b = 0 THEN a ELSE GCD(b, a % b)

Rat(n, d) == LET g == GCD(Abs(n), d) IN <<n \div g, d \div g>>

RAdd(a, b) ==
    LET g == GCD(a[2], b[2])
    IN  Rat(a[1] * (b[2] \div g) + b[1] * (a[2] \div g), (a[2] \div g) * b[2])

RNeg(a) == <<-a[1], a[2]>>

RSub(a, b) == RAdd(a, RNeg(b))

RMul(a, b) ==
    LET g1 == GCD(Abs(a[1]), b[2])
        g2 == GCD(Abs(b[1]), a[2])
    IN  IF a[1] = 0 \/ b[1] = 0 THEN <<0, 1>>
        ELSE <<(a[1] \div g1) * (b[1] \div g2), (a[2] \div g2) * (b[2] \div g1)>>

RDivInt(a, k) == RMul(a, Rat(1, k))

RLe(a, b) ==
    LET g == GCD(a[2], b[2])
    IN  a[1] * (b[2] \div g) <= b[1] * (a[2] \div g)

RLt(a, b) == RLe(a, b) /\ a # b

\* Python's max(x, y): y replaces x only when y > x
RMax(a, b) == IF RLt(a, b) THEN b ELSE a

Zero == <<0, 1>>

-----------------------------------------------------------------------------
(* Sequences                                                                *)

Reverse(s) == [i \in 1..Len(s) |-> s[Len(s) + 1 - i]]

Min2(a, b) == IF a < b THEN a ELSE b
Max2(a, b) == IF a > b THEN a ELSE b

\* df.tail(n) / range(len - n, len)
Tail_n(s, n) == SubSeq(s, Len(s) - n + 1, Len(s))

Indexed(s) == [i \in 1..Len(s) |-> [idx |-> i, row |-> s[i]]]
Rows(ix) == [i \in 1..Len(ix) |-> ix[i].row]

-----------------------------------------------------------------------------
(* Program constants                                                        *)

MinutesPerDay == 1440
SecondsPerMinute == 60
HistoryDays == 7
MinProviderPoints == 100
HistoricalTail == 50
TrendLookback == 12

QuantitySet == {"energy_price", "hash_price", "token_price"}

-----------------------------------------------------------------------------
(* Bounds of the model                                                      *)

MaxHorizon == 2
MaxMarketData == 14
MaxElapsed == 1

\* horizon is an unconstrained int of the request
Horizons == 0..MaxHorizon
Intervals == {90, 120, 1440, 2000}
LevelLists == {<<80, 95>>, <<50>>}
MarketDataLens == {0, 3, MaxMarketData}

\* datetime.now() of the first read: day 400, 12:00:00
Now0 == 400 * (MinutesPerDay * SecondsPerMinute) + 12 * 3600

-----------------------------------------------------------------------------
(* The caller's payload and the CSV store                                   *)

PriceTable == <<Rat(25, 10), Rat(31, 10), Rat(18, 10), Rat(1, 10), Rat(27, 10), Rat(40, 10), Rat(22, 10)>>

TablePrice(k, shift) == PriceTable[((k + shift) % Len(PriceTable)) + 1]

Row(ts, k) ==
    [timestamp |-> ts, energy_price |-> TablePrice(k, 0),
     hash_price |-> TablePrice(k, 2), token_price |-> TablePrice(k, 5)]

\* request.market_data: n points five minutes apart, oldest first, ending at Now0
MarketData(n) == [i \in 1..n |-> Row(Now0 - (n - i) * 300, i)]

\* a file whose rows are all older than the seven-day window
CsvOld == <<Row(Now0 - 30 * 86400, 1), Row(Now0 - 29 * 86400, 2)>>

\* a file with 15 hourly rows inside the last day: the newest is written first,
\* and the timestamp two hours back is written twice
CsvRecent ==
    <<Row(Now0 - 3600, 14)>>
    \o [i \in 1..13 |-> Row(Now0 - (15 - i) * 3600, i)]
    \o <<Row(Now0 - 2 * 3600, 20)>>

CsvFiles == {CsvOld, CsvRecent}

-----------------------------------------------------------------------------
(* generate_synthetic_data_fallback                                         *)

\* energy / hash / token price before the floor, in tenths, by sample index
SyntheticRawTenths(q, k) ==
    CASE q = "energy_price" -> <<25, 31, 18, -2, 27, 40, 22>>[(k % 7) + 1]
      [] q = "hash_price"   -> <<30, 44, -5, 36, 28>>[(k % 5) + 1]
      [] q = "token_price"  -> <<20, 8, 33, 0, 26, 15>>[(k % 6) + 1]

\* np.maximum(prices, 0.1)
SyntheticPrice(q, k) == RMax(Rat(SyntheticRawTenths(q, k), 10), Rat(1, 10))

generate_synthetic_data_fallback(days, interval_minutes, t) ==
    LET intervals_per_day == MinutesPerDay \div interval_minutes
        total_intervals == days * intervals_per_day
        in_range == ((days * MinutesPerDay) \div interval_minutes) + 1
        n == Min2(total_intervals, in_range)
        start_date == t - days * MinutesPerDay * SecondsPerMinute
    IN  [i \in 1..n |->
            [timestamp |-> start_date + (i - 1) * interval_minutes * SecondsPerMinute,
             energy_price |-> SyntheticPrice("energy_price", i - 1),
             hash_price |-> SyntheticPrice("hash_price", i - 1),
             token_price |-> SyntheticPrice("token_price", i - 1)]]

-----------------------------------------------------------------------------
(* generate_energy_market_data                                              *)

SortByTimestamp(rows) == SortSeq(rows, LAMBDA a, b : a.timestamp < b.timestamp)

ReadCsvWindow(file, days, t) ==
    LET start_date == t - days * MinutesPerDay * SecondsPerMinute
    IN  SelectSeq(SortByTimestamp(file),
                  LAMBDA r : r.timestamp >= start_date /\ r.timestamp <= t)

\* csv_ok = FALSE: pd.read_csv raised (file missing or unreadable)
generate_energy_market_data(days, interval_minutes, csv_ok, file, t) ==
    IF csv_ok THEN ReadCsvWindow(file, days, t)
    ELSE generate_synthetic_data_fallback(days, interval_minutes, t)

-----------------------------------------------------------------------------
(* Normalisation: per-quantity {ds, y} lists and de-duplicated frames       *)

ToSeries(rows, q) == [i \in 1..Len(rows) |-> [ds |-> rows[i].timestamp, y |-> rows[i][q]]]

\* DataFrame.drop_duplicates(subset=['ds'], keep='last')
drop_duplicates(s) ==
    Rows(SelectSeq(Indexed(s),
                   LAMBDA e : \A j \in (e.idx + 1)..Len(s) : s[j].ds # e.row.ds))

\* for point in additional_data: list.insert(0, ...)
InsertAllAtFront(list, additional) == Reverse(additional) \o list

\* max(1, (100 - len(energy_df)) // ((24 * 60) // interval_minutes))
additional_days(n, interval_minutes) ==
    Max2(1, (MinProviderPoints - n) \div (MinutesPerDay \div interval_minutes))

-----------------------------------------------------------------------------
(* generate_synthetic_forecast_all_types                                    *)

MaxNoiseSeed == 0

\* pd.DataFrame(list of dicts): the columns are the keys of the dicts
DataFrame(rows) == [columns |-> IF rows = <<>> THEN {} ELSE DOMAIN rows[1], rows |-> rows]

\* lines 601-618: naming convention by column presence
ColumnNames(df) ==
    IF "timestamp" \in df.columns
      THEN [time_col |-> "timestamp", energy_price |-> "energy_price",
            hash_price |-> "hash_price", token_price |-> "token_price"]
    ELSE IF "energyPrice" \in df.columns
      THEN [time_col |-> "timestamp", energy_price |-> "energyPrice",
            hash_price |-> "hashPrice", token_price |-> "tokenPrice"]
    ELSE [time_col |-> "ds", energy_price |-> "y", hash_price |-> "y", token_price |-> "y"]

ColumnMax(rows, col) ==
    CHOOSE t \in {rows[i][col] : i \in 1..Len(rows)} :
        \A i \in 1..Len(rows) : rows[i][col] <= t

\* lines 620-624
LastDate(df, t) ==
    LET time_col == ColumnNames(df).time_col
    IN  IF time_col \in df.columns THEN ColumnMax(df.rows, time_col) ELSE t

DefaultLast(q) ==
    CASE q = "energy_price" -> Rat(1, 10)
      [] q = "hash_price"   -> Rat(4, 1)
      [] q = "token_price"  -> Rat(1, 2)

\* lines 626-640: df[col].iloc[-1]
LastValue(df, q) ==
    LET col == ColumnNames(df)[q]
    IN  IF col \in df.columns THEN df.rows[Len(df.rows)][col] ELSE DefaultLast(q)

\* lines 642-648: (df[col].iloc[-1] - df[col].iloc[-12]) / 12
Trend(df, q) ==
    LET col == ColumnNames(df)[q]
        n == Len(df.rows)
    IN  IF n > TrendLookback
          THEN IF col \in df.columns
                 THEN RDivInt(RSub(df.rows[n][col], df.rows[n - TrendLookback + 1][col]),
                              TrendLookback)
                 ELSE Zero
          ELSE Zero

NoBounds == [k \in {} |-> NULL]

\* lines 653-669: the last 50 rows, when every needed column is there
SyntheticHistorical(df) ==
    LET c == ColumnNames(df)
        tail == Tail_n(df.rows, Min2(HistoricalTail, Len(df.rows)))
    IN  IF {c.time_col, c.energy_price, c.hash_price, c.token_price} \subseteq df.columns
          THEN [i \in 1..Len(tail) |->
                   [timestamp |-> tail[i][c.time_col],
                    is_historical |-> TRUE,
                    price |-> [q \in QuantitySet |-> tail[i][c[q]]],
                    bounds |-> NoBounds]]
          ELSE <<>>

\* sin(2 * pi * (hour_of_day - 6) / 24), as the triangle wave through the same
\* zeros and extrema
DailySine(ts) ==
    LET minute_of_day == (ts % (MinutesPerDay * SecondsPerMinute)) \div SecondsPerMinute
        x == (minute_of_day - 360) % MinutesPerDay
    IN  IF x <= 360 THEN Rat(x, 360)
        ELSE IF x <= 1080 THEN Rat(720 - x, 360)
        ELSE Rat(x - 1440, 360)

\* line 682
DailyMultiplier(ts) == RAdd(Rat(1, 1), RMul(Rat(15, 100), DailySine(ts)))

\* np.random.random(): one of three draws in [0, 1), by seed, step and quantity
RandomDraw(seed, i, q) ==
    LET k == CASE q = "energy_price" -> 0 [] q = "hash_price" -> 1 [] q = "token_price" -> 2
    IN  <<Rat(0, 1), Rat(1, 2), Rat(9, 10)>>[((seed + i + k) % 3) + 1]

NoiseScale(q) ==
    CASE q = "energy_price" -> Rat(1, 100)
      [] q = "hash_price"   -> Rat(1, 10)
      [] q = "token_price"  -> Rat(5, 100)

\* lines 685-687
Noise(seed, i, q) == RMul(RSub(RandomDraw(seed, i, q), Rat(1, 2)), NoiseScale(q))

PriceFloor(q) ==
    CASE q = "energy_price" -> Rat(1, 100)
      [] q = "hash_price"   -> Rat(1, 10)
      [] q = "token_price"  -> Rat(1, 100)

\* lines 690-692; i counts from 0
SyntheticValue(df, q, i, ts, seed) ==
    RMax(PriceFloor(q),
         RAdd(RAdd(RMul(LastValue(df, q), DailyMultiplier(ts)),
                   RMul(RMul(Trend(df, q), Rat(i, 1)), Rat(1, 10))),
              Noise(seed, i, q)))

\* variant: the uncertainty grows with the level
UncertaintyGrowing(level) == RMul(Rat(level, 100), Rat(1, 2))

\* line 704
Uncertainty(level) == RMul(Rat(100 - level, 100), Rat(1, 2))

\* lines 705-710
SyntheticLo(value, level) == RMul(value, RSub(Rat(1, 1), Uncertainty(level)))
SyntheticHi(value, level) == RMul(value, RAdd(Rat(1, 1), Uncertainty(level)))

LevelSet(levels) == {levels[i] : i \in 1..Len(levels)}

BoundKeys(levels) == QuantitySet \X {"lo", "hi"} \X LevelSet(levels)

\* variant: one forecast step too few
ForecastCountOffByOne(horizon) == horizon - 1

\* lines 671-676: pd.date_range(start=last_date + interval, periods=horizon)
ForecastCount(horizon) == horizon

\* lines 678-712
SyntheticForecastPoints(df, horizon, interval_minutes, levels, t, seed) ==
    [n \in 1..ForecastCount(horizon) |->
        LET ts == LastDate(df, t) + n * interval_minutes * SecondsPerMinute
            value == [q \in QuantitySet |-> SyntheticValue(df, q, n - 1, ts, seed)]
        IN  [timestamp |-> ts,
             is_historical |-> FALSE,
             price |-> value,
             bounds |-> [k \in BoundKeys(levels) |->
                            IF k[2] = "lo" THEN SyntheticLo(value[k[1]], k[3])
                            ELSE SyntheticHi(value[k[1]], k[3])]]]

RECURSIVE RSum(_)
RSum(s) == IF s = <<>> THEN Zero ELSE RAdd(s[1], RSum(Tail(s)))

\* float('nan'): what mean / min / max of an empty pandas Series give
NaN == <<0, 0>>

RMean(s) == IF s = <<>> THEN NaN ELSE RDivInt(RSum(s), Len(s))

RMinOf(s) ==
    IF s = <<>> THEN NaN
    ELSE CHOOSE v \in {s[i] : i \in 1..Len(s)} : \A i \in 1..Len(s) : RLe(v, s[i])

RMaxOf(s) ==
    IF s = <<>> THEN NaN
    ELSE CHOOSE v \in {s[i] : i \in 1..Len(s)} : \A i \in 1..Len(s) : RLe(s[i], v)

RSquare(a) == RMul(a, a)

SumSquaredDeviations(s) == RSum([i \in 1..Len(s) |-> RSquare(RSub(s[i], RMean(s)))])

\* a standard deviation is kept as the number under its square root
Sqrt(v) == [radicand |-> v]

\* np.std(values): population standard deviation, divisor n
np_std(s) ==
    IF s = <<>> THEN Sqrt(NaN) ELSE Sqrt(RDivInt(SumSquaredDeviations(s), Len(s)))

\* pandas Series.std(): sample standard deviation, divisor n - 1, NaN below two values
Series_std(s) ==
    IF Len(s) < 2 THEN Sqrt(NaN) ELSE Sqrt(RDivInt(SumSquaredDeviations(s), Len(s) - 1))

\* the multiple of the standard deviation that bounds an ordinary price: 1.5
ArbitrageSigmas == Rat(3, 2)

\* p > mean_price + 1.5 * std_price
IsHighPrice(p, mean_price, std_price) ==
    LET d == RSub(p, mean_price)
    IN  /\ RLt(Zero, d)
        /\ RLt(RMul(RSquare(ArbitrageSigmas), std_price.radicand), RSquare(d))

\* variant: prices far below the mean are not counted
IsLowPriceNever(p, mean_price, std_price) == FALSE

\* p < mean_price - 1.5 * std_price
IsLowPrice(p, mean_price, std_price) ==
    LET d == RSub(p, mean_price)
    IN  /\ RLt(d, Zero)
        /\ RLt(RMul(RSquare(ArbitrageSigmas), std_price.radicand), RSquare(d))

\* lines 743-756
detect_arbitrage_opportunities(forecast_values) ==
    IF Len(forecast_values) < 2 THEN 0
    ELSE LET mean_price == RMean(forecast_values)
             std_price == np_std(forecast_values)
             high_prices == Cardinality({i \in 1..Len(forecast_values) :
                                IsHighPrice(forecast_values[i], mean_price, std_price)})
             low_prices == Cardinality({i \in 1..Len(forecast_values) :
                                IsLowPrice(forecast_values[i], mean_price, std_price)})
         IN  high_prices + low_prices

ForecastOnly(points) == SelectSeq(points, LAMBDA f : ~f.is_historical)

Column(points, q) == [i \in 1..Len(points) |-> points[i].price[q]]

\* lines 672-676, 726: date_range rejects a negative count, and np.min of the empty
\* energy_values raises ValueError
SyntheticRaises(df, horizon) == horizon < 1

\* lines 599-741
generate_synthetic_forecast_all_types(df, horizon, interval_minutes, levels, t, seed) ==
    LET forecast_data == SyntheticHistorical(df)
                         \o SyntheticForecastPoints(df, horizon, interval_minutes, levels, t, seed)
        forecast_only == ForecastOnly(forecast_data)
        energy_values == Column(forecast_only, "energy_price")
    IN  [forecasts |-> forecast_data,
         arbitrage_opportunities |-> detect_arbitrage_opportunities(energy_values),
         model |-> "synthetic",
         statistics |-> [mean |-> RMean(energy_values),
                         std |-> np_std(energy_values),
                         min |-> RMinOf(energy_values),
                         max |-> RMaxOf(energy_values),
                         trend |-> Trend(df, "energy_price"),
                         hash_mean |-> RMean(Column(forecast_only, "hash_price")),
                         token_mean |-> RMean(Column(forecast_only, "token_price"))],
         interval_minutes |-> interval_minutes]

-----------------------------------------------------------------------------
(* The provider's answer (nixtla_client.forecast) and its assembly          *)

MaxProviderSeed == 0

\* how the answer names its interval columns:
\*   "int"    TimeGPT-lo-80        "float"  TimeGPT-lo-80.0      "bare"  lo-80
\*   "dual"   both the float and the bare names, with different values
\*   "first"  float names for the first requested level only
\*   "none"   no interval columns     "nopoint"  no TimeGPT column either
ProviderSchemes == {"int", "float", "bare", "dual", "first", "none", "nopoint"}

\* a column name: <<prefix, side, level, number format>>
PointColumn == <<"TimeGPT", "point", 0, "">>

\* before the first call nothing is known of the provider's answer
NoProviderEnv == [scheme |-> "unset", seed |-> 0]

StylesOf(scheme) ==
    CASE scheme = "int"   -> {<<"TimeGPT-", "int">>}
      [] scheme = "float" -> {<<"TimeGPT-", "float">>}
      [] scheme = "first" -> {<<"TimeGPT-", "float">>}
      [] scheme = "bare"  -> {<<"", "int">>}
      [] scheme = "dual"  -> {<<"TimeGPT-", "float">>, <<"", "int">>}
      [] OTHER            -> {}

ProviderColumns(scheme, levels) ==
    LET covered == IF scheme = "first" THEN {levels[1]} ELSE LevelSet(levels)
    IN  (IF scheme = "nopoint" THEN {} ELSE {PointColumn})
        \cup {<<st[1], side, l, st[2]>> :
                 st \in StylesOf(scheme), side \in {"lo", "hi"}, l \in covered}

\* the provider's point estimate for step i (from 1); the code puts no constraint on
\* it, and a forecast of a price near zero can be zero or negative
ProviderPoint(q, i, seed) ==
    LET k == CASE q = "energy_price" -> 0 [] q = "hash_price" -> 1 [] q = "token_price" -> 2
    IN  <<Rat(21, 10), Rat(-1, 2), Rat(37, 10), Rat(0, 1)>>[((seed + i + k) % 4) + 1]

\* the provider's interval around its point, wider for the bare names
ProviderBound(col, point) ==
    LET half == RMul(Rat(col[3], 100), IF col[1] = "" THEN Rat(1, 1) ELSE Rat(1, 2))
    IN  IF col[2] = "lo" THEN RSub(point, half) ELSE RAdd(point, half)

\* nixtla_client.forecast(df, h, freq, level): h rows following the series
ProviderAnswer(series, h, interval_minutes, levels, q, env) ==
    LET last == ColumnMax(series, "ds")
        cols == ProviderColumns(env.scheme, levels)
    IN  [columns |-> cols,
         rows |-> [i \in 1..h |->
                     [ds |-> last + i * interval_minutes * SecondsPerMinute,
                      val |-> [c \in cols |->
                                 IF c = PointColumn THEN ProviderPoint(q, i, env.seed)
                                 ELSE ProviderBound(c, ProviderPoint(q, i, env.seed))]]]]

\* lines 349-350: the names tried for a level, in order
BoundColumnNames(side, level) ==
    << <<"TimeGPT-", side, level, "int">>,
       <<"TimeGPT-", side, level, "float">>,
       <<"", side, level, "int">> >>

\* variant: only the first spelling of a column name is tried
FirstPresentFirstNameOnly(names, columns) ==
    IF names[1] \in columns THEN names[1] ELSE NULL

\* for col_name in names: if col_name in columns: ... break
FirstPresent(names, columns) ==
    IF \E n \in 1..Len(names) : names[n] \in columns
      THEN names[CHOOSE n \in 1..Len(names) :
                    /\ names[n] \in columns
                    /\ \A m \in 1..(n - 1) : names[m] \notin columns]
      ELSE NULL

\* lines 358, 365: the for-else branch
ProxyBound(side, point) ==
    IF side = "lo" THEN RMul(point, Rat(9, 10)) ELSE RMul(point, Rat(11, 10))

\* lines 353-395
ExtractBound(answer, i, side, level) ==
    LET found == FirstPresent(BoundColumnNames(side, level), answer.columns)
    IN  IF found # NULL THEN answer.rows[i].val[found]
        ELSE ProxyBound(side, answer.rows[i].val[PointColumn])

\* lines 314-334: the last 50 rows of the frames, bounds set to None
ProviderHistorical(frames, levels) ==
    LET n == Len(frames["energy_price"])
        historical_points == Min2(HistoricalTail, n)
    IN  [k \in 1..historical_points |->
            LET i == n - historical_points + k
            IN  [timestamp |-> frames["energy_price"][i].ds,
                 is_historical |-> TRUE,
                 price |-> [q \in QuantitySet |-> frames[q][i].y],
                 bounds |-> [b \in BoundKeys(levels) |-> NULL]]]

\* lines 336-397
ProviderForecastPoints(answers, levels) ==
    [i \in 1..Len(answers["energy_price"].rows) |->
        [timestamp |-> answers["energy_price"].rows[i].ds,
         is_historical |-> FALSE,
         price |-> [q \in QuantitySet |-> answers[q].rows[i].val[PointColumn]],
         bounds |-> [b \in BoundKeys(levels) |-> ExtractBound(answers[b[1]], i, b[2], b[3])]]]

\* iloc[i]['TimeGPT'] raises KeyError when the answer has no such column
AssemblyRaises(answers) == \E q \in QuantitySet : PointColumn \notin answers[q].columns

\* lines 309-423
AssembleProviderResponse(frames, answers, levels, interval_minutes) ==
    LET energy_values == [i \in 1..Len(answers["energy_price"].rows) |->
                             answers["energy_price"].rows[i].val[PointColumn]]
    IN  [forecasts |-> ProviderHistorical(frames, levels) \o ProviderForecastPoints(answers, levels),
         arbitrage_opportunities |-> detect_arbitrage_opportunities(energy_values),
         model |-> "timegpt-1",
         statistics |-> [mean |-> RMean(energy_values),
                         std |-> Series_std(energy_values),
                         min |-> RMinOf(energy_values),
                         max |-> RMaxOf(energy_values)],
         interval_minutes |-> interval_minutes]

-----------------------------------------------------------------------------
(* The outer fallback's sources                                             *)

\* the market-data API's JSON: 14 rows five minutes apart, newest first
MaraPayload == [i \in 1..14 |-> Row(Now0 - i * 300, i + 3)]

\* lines 450-456: sort by timestamp, rename timestamp -> ds, energy_price -> y
MaraFrame(payload) ==
    LET sorted == SortByTimestamp(payload)
    IN  DataFrame([i \in 1..Len(sorted) |->
                      [ds |-> sorted[i].timestamp, y |-> sorted[i].energy_price,
                       hash_price |-> sorted[i].hash_price,
                       token_price |-> sorted[i].token_price]])

\* lines 459-462, 465-468
RequestFrame(market_data) ==
    DataFrame([i \in 1..Len(market_data) |->
                  [ds |-> market_data[i].timestamp, y |-> market_data[i].energy_price]])

\* "ok_empty": status 200 with an empty list, df['timestamp'] raises KeyError
MaraOutcomes == {"raise", "non200", "ok", "ok_empty"}

\* variant: the market-data API's rows are ignored
OuterFrameRequestOnly(o, market_data) == RequestFrame(market_data)

OuterFrame(o, market_data) == IF o = "ok" THEN MaraFrame(MaraPayload) ELSE RequestFrame(market_data)

-----------------------------------------------------------------------------
\* no direct call of detect_arbitrage_opportunities is under way
ArbitrageIdle ==
    /\ arbitrage_pc = "idle"
    /\ arbitrage_input = <<>>
    /\ opportunities = 0

\* before nixtla_client.detect_anomalies has answered
NoAnomaliesFrame == [raised |-> FALSE, rows |-> <<>>]

\* before the anomaly-detection endpoint has returned
NoAnomalyResult == [status |-> "pending"]

\* no anomaly-detection request is under way
AnomalyIdle ==
    /\ anomaly_pc = "idle"
    /\ anomalies_df = NoAnomaliesFrame
    /\ anomaly_result = NoAnomalyResult

Init ==
    /\ request \in [market_data : {MarketData(n) : n \in MarketDataLens},
                    horizon : Horizons,
                    interval_minutes : Intervals,
                    confidence_levels : LevelLists]
    /\ nixtla_client \in BOOLEAN
    /\ csv \in CsvFiles
    /\ now = Now0
    /\ pc = "load"
    /\ historical_data = <<>>
    /\ price_data = [q \in QuantitySet |-> <<>>]
    /\ price_df = [q \in QuantitySet |-> <<>>]
    /\ backfilled = FALSE
    /\ provider_env = NoProviderEnv
    /\ provider_forecast = [q \in QuantitySet |-> NULL]
    /\ provider_calls = [q \in QuantitySet |-> 0]
    /\ provider_failed = FALSE
    /\ outer_entered = FALSE
    /\ mara_calls = 0
    /\ mara_outcome = "none"
    /\ synth_calls = 0
    /\ synth_df = NULL
    /\ synth_trend = NULL
    /\ outcome = "pending"
    /\ response = NULL
    /\ ArbitrageIdle
    /\ AnomalyIdle

\* line 218: historical_data = generate_energy_market_data(days=7, ...)
LoadHistorical ==
    /\ pc = "load"
    /\ \E csv_ok \in BOOLEAN :
          historical_data' = generate_energy_market_data(HistoryDays, request.interval_minutes,
                                                         csv_ok, csv, now)
    /\ pc' = "normalize"
    /\ UNCHANGED <<arbitrage_vars, anomaly_vars>>
    /\ UNCHANGED <<request, nixtla_client, csv, now, price_data, price_df, backfilled,
                   provider_env, provider_forecast, provider_calls, provider_failed,
                   outer_entered, mara_calls, mara_outcome, synth_calls, synth_df,
                   synth_trend, outcome, response>>

\* lines 221-240: an empty DataFrame has no 'ds' column, so drop_duplicates raises KeyError
Normalize ==
    /\ pc = "normalize"
    /\ price_data' = [q \in QuantitySet |-> ToSeries(historical_data, q)]
    /\ IF historical_data = <<>>
         THEN /\ pc' = "outer"
              /\ outer_entered' = TRUE
              /\ UNCHANGED price_df
         ELSE /\ pc' = "check_len"
              /\ price_df' = [q \in QuantitySet |-> drop_duplicates(ToSeries(historical_data, q))]
              /\ UNCHANGED outer_entered
    /\ UNCHANGED <<arbitrage_vars, anomaly_vars>>
    /\ UNCHANGED <<request, nixtla_client, csv, now, historical_data, backfilled,
                   provider_env, provider_forecast, provider_calls, provider_failed,
                   mara_calls, mara_outcome, synth_calls, synth_df, synth_trend,
                   outcome, response>>

\* lines 242-262: fewer than 100 unique points; a zero divisor at line 246 raises
Backfill ==
    /\ pc = "check_len"
    /\ Len(price_df["energy_price"]) < MinProviderPoints
    /\ backfilled' = TRUE
    /\ IF MinutesPerDay \div request.interval_minutes = 0
         THEN /\ pc' = "outer"
              /\ outer_entered' = TRUE
              /\ UNCHANGED <<now, price_data, price_df>>
         ELSE \E csv_ok \in BOOLEAN, elapsed \in 0..MaxElapsed :
                LET days == additional_days(Len(price_df["energy_price"]), request.interval_minutes)
                    additional_data == generate_energy_market_data(
                                           days, request.interval_minutes, csv_ok, csv, now + elapsed)
                    extended == [q \in QuantitySet |->
                                    InsertAllAtFront(price_data[q], ToSeries(additional_data, q))]
                IN  /\ now' = now + elapsed
                    /\ price_data' = extended
                    /\ price_df' = [q \in QuantitySet |-> drop_duplicates(extended[q])]
                    /\ pc' = "dispatch"
                    /\ UNCHANGED outer_entered
    /\ UNCHANGED <<arbitrage_vars, anomaly_vars>>
    /\ UNCHANGED <<request, nixtla_client, csv, historical_data, provider_env,
                   provider_forecast, provider_calls, provider_failed, mara_calls,
                   mara_outcome, synth_calls, synth_df, synth_trend, outcome, response>>

\* line 243 false: enough data
SkipBackfill ==
    /\ pc = "check_len"
    /\ Len(price_df["energy_price"]) >= MinProviderPoints
    /\ pc' = "dispatch"
    /\ UNCHANGED <<arbitrage_vars, anomaly_vars>>
    /\ UNCHANGED <<request, nixtla_client, csv, now, historical_data, price_data, price_df,
                   backfilled, provider_env, provider_forecast, provider_calls,
                   provider_failed, outer_entered, mara_calls, mara_outcome, synth_calls,
                   synth_df, synth_trend, outcome, response>>

\* variant: the provider is tried without a configured client
ProviderEnabledWithoutClient == Len(price_df["energy_price"]) > 0

\* line 264
ProviderEnabled == nixtla_client /\ Len(price_df["energy_price"]) > 0

\* lines 282-307: one nixtla_client.forecast call; an exception enters line 425
ProviderCall(q, at, after) ==
    /\ pc = at
    /\ ProviderEnabled
    /\ provider_calls' = [provider_calls EXCEPT ![q] = @ + 1]
    /\ \/ \E env \in IF provider_env = NoProviderEnv
                       THEN [scheme : ProviderSchemes, seed : 0..MaxProviderSeed]
                       ELSE {provider_env} :
             /\ provider_env' = env
             /\ provider_forecast' =
                   [provider_forecast EXCEPT ![q] =
                       ProviderAnswer(price_df[q], request.horizon, request.interval_minutes,
                                      request.confidence_levels, q, env)]
             /\ pc' = after
             /\ UNCHANGED provider_failed
       \/ /\ pc' = "inner_except"
          /\ provider_failed' = TRUE
          /\ UNCHANGED <<provider_env, provider_forecast>>
    /\ UNCHANGED <<arbitrage_vars, anomaly_vars>>
    /\ UNCHANGED <<request, nixtla_client, csv, now, historical_data, price_data, price_df,
                   backfilled, outer_entered, mara_calls, mara_outcome, synth_calls,
                   synth_df, synth_trend, outcome, response>>

\* lines 309-423
AssembleProvider ==
    /\ pc = "assemble"
    /\ IF AssemblyRaises(provider_forecast)
         THEN /\ pc' = "inner_except"
              /\ provider_failed' = TRUE
              /\ UNCHANGED <<outcome, response>>
         ELSE /\ pc' = "done"
              /\ outcome' = "response"
              /\ response' = AssembleProviderResponse(price_df, provider_forecast,
                                                      request.confidence_levels,
                                                      request.interval_minutes)
              /\ UNCHANGED provider_failed
    /\ UNCHANGED <<arbitrage_vars, anomaly_vars>>
    /\ UNCHANGED <<request, nixtla_client, csv, now, historical_data, price_data, price_df,
                   backfilled, provider_env, provider_forecast, provider_calls,
                   outer_entered, mara_calls, mara_outcome, synth_calls, synth_df,
                   synth_trend>>

\* one execution of generate_synthetic_forecast_all_types(df, ...) inside the outer try:
\* it returns the response, or its exception enters line 440
SyntheticInTry(df) ==
    /\ synth_calls' = synth_calls + 1
    /\ synth_df' = df
    /\ synth_trend' = [q \in QuantitySet |-> Trend(df, q)]
    /\ IF SyntheticRaises(df, request.horizon)
         THEN /\ pc' = "outer"
              /\ outer_entered' = TRUE
              /\ UNCHANGED <<outcome, response>>
         ELSE /\ pc' = "done"
              /\ outcome' = "response"
              /\ \E seed \in 0..MaxNoiseSeed :
                    response' = generate_synthetic_forecast_all_types(
                                    df, request.horizon, request.interval_minutes,
                                    request.confidence_levels, now, seed)
              /\ UNCHANGED outer_entered
    /\ UNCHANGED <<arbitrage_vars, anomaly_vars>>
    /\ UNCHANGED <<request, nixtla_client, csv, now, historical_data, price_data, price_df,
                   backfilled, provider_env, provider_forecast, provider_calls,
                   provider_failed, mara_calls, mara_outcome>>

\* lines 425-434: the provider path raised
SyntheticAfterProviderFailure ==
    /\ pc = "inner_except"
    /\ SyntheticInTry(DataFrame(historical_data))

\* lines 435-438: no provider, or no data
SyntheticNoProvider ==
    /\ pc = "dispatch"
    /\ ~ProviderEnabled
    /\ SyntheticInTry(DataFrame(historical_data))

\* lines 440-468: one GET to the market-data API, else the request's own points
OuterFetch ==
    /\ pc = "outer"
    /\ mara_calls' = mara_calls + 1
    /\ \E o \in MaraOutcomes :
          /\ mara_outcome' = o
          /\ synth_df' = OuterFrame(o, request.market_data)
    /\ pc' = "outer_synth"
    /\ UNCHANGED <<arbitrage_vars, anomaly_vars>>
    /\ UNCHANGED <<request, nixtla_client, csv, now, historical_data, price_data, price_df,
                   backfilled, provider_env, provider_forecast, provider_calls,
                   provider_failed, outer_entered, synth_calls, synth_trend, outcome,
                   response>>

\* one execution of generate_synthetic_forecast_all_types(synth_df, ...) outside any
\* try: it returns the response, or its exception reaches the caller
SyntheticOutsideTry(at) ==
    /\ pc = at
    /\ synth_calls' = synth_calls + 1
    /\ synth_trend' = [q \in QuantitySet |-> Trend(synth_df, q)]
    /\ pc' = "done"
    /\ IF SyntheticRaises(synth_df, request.horizon)
         THEN /\ outcome' = "error"
              /\ UNCHANGED response
         ELSE /\ outcome' = "response"
              /\ \E seed \in 0..MaxNoiseSeed :
                    response' = generate_synthetic_forecast_all_types(
                                    synth_df, request.horizon, request.interval_minutes,
                                    request.confidence_levels, now, seed)
    /\ UNCHANGED <<arbitrage_vars, anomaly_vars>>
    /\ UNCHANGED <<request, nixtla_client, csv, now, historical_data, price_data, price_df,
                   backfilled, provider_env, provider_forecast, provider_calls,
                   provider_failed, outer_entered, mara_calls, mara_outcome, synth_df>>

\* line 470: an exception here leaves generate_forecast
OuterSynthetic == SyntheticOutsideTry("outer_synth")

Next ==
    \/ LoadHistorical
    \/ Normalize
    \/ Backfill
    \/ SkipBackfill
    \/ ProviderCall("energy_price", "dispatch", "call_hash")
    \/ ProviderCall("hash_price", "call_hash", "call_token")
    \/ ProviderCall("token_price", "call_token", "assemble")
    \/ AssembleProvider
    \/ SyntheticAfterProviderFailure
    \/ SyntheticNoProvider
    \/ OuterFetch
    \/ OuterSynthetic

Spec == Init /\ [][Next]_vars

-----------------------------------------------------------------------------
(* detect_arbitrage_opportunities called on lists of prices                 *)

MaxValues == 4

ArbitragePrices == {Rat(1, 10), Rat(1, 1), Rat(5, 1)}

PriceLists == UNION {[1..n -> ArbitragePrices] : n \in 0..MaxValues}

\* no forecast request is under way
ForecastIdle ==
    /\ csv = <<>>
    /\ now = Now0
    /\ pc = "idle"
    /\ historical_data = <<>>
    /\ price_data = [q \in QuantitySet |-> <<>>]
    /\ price_df = [q \in QuantitySet |-> <<>>]
    /\ backfilled = FALSE
    /\ provider_env = NoProviderEnv
    /\ provider_forecast = [q \in QuantitySet |-> NULL]
    /\ provider_calls = [q \in QuantitySet |-> 0]
    /\ provider_failed = FALSE
    /\ outer_entered = FALSE
    /\ mara_calls = 0
    /\ mara_outcome = "none"
    /\ synth_calls = 0
    /\ synth_df = NULL
    /\ synth_trend = NULL
    /\ outcome = "pending"
    /\ response = NULL

ArbitrageInit ==
    /\ request = [market_data |-> <<>>, horizon |-> 0, interval_minutes |-> 5,
                  confidence_levels |-> <<80, 95>>]
    /\ nixtla_client = FALSE
    /\ ForecastIdle
    /\ AnomalyIdle
    /\ arbitrage_pc = "call"
    /\ arbitrage_input \in PriceLists
    /\ opportunities = 0

\* lines 743-756, called with a list of prices
DetectArbitrage ==
    /\ arbitrage_pc = "call"
    /\ opportunities' = detect_arbitrage_opportunities(arbitrage_input)
    /\ arbitrage_pc' = "return"
    /\ UNCHANGED <<request, nixtla_client, forecast_vars, anomaly_vars, arbitrage_input>>

ArbitrageNext == DetectArbitrage

ArbitrageSpec == ArbitrageInit /\ [][ArbitrageNext]_vars

-----------------------------------------------------------------------------
(* generate_synthetic_forecast_all_types called on frames of each naming    *)
(* convention                                                               *)

MaxFrameRows == 14

FrameLens == {1, 2, MaxFrameRows - 1, MaxFrameRows}

\* canonical columns, as pd.DataFrame(historical_data) has them (lines 431, 437)
CanonicalFrame(n) == DataFrame(MarketData(n))

\* legacy columns energyPrice / hashPrice / tokenPrice beside a time column
LegacyFrame(n, time_col) ==
    DataFrame([i \in 1..n |->
        LET r == MarketData(n)[i]
        IN  IF time_col = "timestamp"
              THEN [timestamp |-> r.timestamp, energyPrice |-> r.energy_price,
                    hashPrice |-> r.hash_price, tokenPrice |-> r.token_price]
              ELSE [ds |-> r.timestamp, energyPrice |-> r.energy_price,
                    hashPrice |-> r.hash_price, tokenPrice |-> r.token_price]])

\* "timestamp": a legacy frame as recorded; "ds": the market-data API answering with
\* legacy keys, after the rename timestamp -> ds of lines 453-456
SyntheticFrames ==
    {CanonicalFrame(n) : n \in FrameLens}
    \cup {LegacyFrame(n, c) : n \in FrameLens, c \in {"timestamp", "ds"}}
    \cup {RequestFrame(MarketData(n)) : n \in FrameLens}

SyntheticInit ==
    /\ request \in [market_data : {<<>>},
                    horizon : Horizons,
                    interval_minutes : {90},
                    confidence_levels : LevelLists]
    /\ nixtla_client = FALSE
    /\ csv = <<>>
    /\ now = Now0
    /\ pc = "synthetic_call"
    /\ historical_data = <<>>
    /\ price_data = [q \in QuantitySet |-> <<>>]
    /\ price_df = [q \in QuantitySet |-> <<>>]
    /\ backfilled = FALSE
    /\ provider_env = NoProviderEnv
    /\ provider_forecast = [q \in QuantitySet |-> NULL]
    /\ provider_calls = [q \in QuantitySet |-> 0]
    /\ provider_failed = FALSE
    /\ outer_entered = FALSE
    /\ mara_calls = 0
    /\ mara_outcome = "none"
    /\ synth_calls = 0
    /\ synth_df \in SyntheticFrames
    /\ synth_trend = NULL
    /\ outcome = "pending"
    /\ response = NULL
    /\ ArbitrageIdle
    /\ AnomalyIdle

\* lines 599-741, called with a frame
SyntheticCall == SyntheticOutsideTry("synthetic_call")

SyntheticNext == SyntheticCall

SyntheticSpec == SyntheticInit /\ [][SyntheticNext]_vars

-----------------------------------------------------------------------------
(* detect_anomalies: the anomaly-detection endpoint                         *)

MaxAnomalyPoints == 4

\* a timestamp string that pd.to_datetime rejects
UnparseableTimestamp == -1

\* request.market_data of n points; with bad_timestamp the first cannot be parsed
AnomalyMarketData(n, bad_timestamp) ==
    [i \in 1..n |-> IF bad_timestamp /\ i = 1 THEN Row(UnparseableTimestamp, i)
                    ELSE MarketData(n)[i]]

\* lines 478-485: ds, y and unique_id of every point
AnomalyFrame(market_data) ==
    [i \in 1..Len(market_data) |->
        [ds |-> market_data[i].timestamp, y |-> market_data[i].energy_price,
         unique_id |-> "energy_price"]]

\* line 481: pd.to_datetime raises ValueError
PrepareRaises(market_data) ==
    \E i \in 1..Len(market_data) : market_data[i].timestamp = UnparseableTimestamp

\* what nixtla_client.detect_anomalies may return for df: the rows from some row on,
\* each flagged 0 or 1, or all of them without an 'anomaly' column
AnomalyAnswers(df) ==
    {[i \in 1..(Len(df) - k) |-> [ds |-> df[k + i].ds, y |-> df[k + i].y, anomaly |-> flags[i]]] :
        k \in 0..Len(df), flags \in [1..Len(df) -> {0, 1}]}
    \cup {[i \in 1..Len(df) |-> [ds |-> df[i].ds, y |-> df[i].y]]}

\* lines 497-504: row.get('anomaly', 0) == 1
IsAnomaly(row) == IF "anomaly" \in DOMAIN row THEN row.anomaly = 1 ELSE FALSE

\* lines 497-504
AnomalyList(rows) ==
    LET flagged == SelectSeq(rows, IsAnomaly)
    IN  [i \in 1..Len(flagged) |->
            [timestamp |-> flagged[i].ds, value |-> flagged[i].y, anomaly_score |-> Rat(1, 1)]]

\* line 509
AnomalyRate(anomalies, df) ==
    IF Len(df) > 0 THEN Rat(Len(anomalies), Len(df)) ELSE Zero

\* lines 506-510
AnomalyResult(rows, df) ==
    [status |-> "ok",
     anomalies |-> AnomalyList(rows),
     total_anomalies |-> Len(AnomalyList(rows)),
     anomaly_rate |-> AnomalyRate(AnomalyList(rows), df)]

\* lines 515, 518
EmptyAnomalyResult ==
    [status |-> "ok", anomalies |-> <<>>, total_anomalies |-> 0, anomaly_rate |-> Zero]

\* line 521: HTTPException(status_code=500)
AnomalyError == [status |-> "error"]

AnomalyInit ==
    /\ request \in [market_data : {AnomalyMarketData(n, b) :
                                       n \in 0..MaxAnomalyPoints, b \in BOOLEAN},
                    horizon : {1},
                    interval_minutes : {5},
                    confidence_levels : {<<80, 95>>}]
    /\ nixtla_client \in BOOLEAN
    /\ ForecastIdle
    /\ ArbitrageIdle
    /\ anomaly_pc = "prepare"
    /\ anomalies_df = NoAnomaliesFrame
    /\ anomaly_result = NoAnomalyResult

\* lines 476-485, 520-521: an exception here is answered with status 500
AnomalyPrepare ==
    /\ anomaly_pc = "prepare"
    /\ IF PrepareRaises(request.market_data)
         THEN /\ anomaly_pc' = "done"
              /\ anomaly_result' = AnomalyError
         ELSE /\ anomaly_pc' = "branch"
              /\ UNCHANGED anomaly_result
    /\ UNCHANGED <<request, nixtla_client, forecast_vars, arbitrage_vars, anomalies_df>>

\* lines 516-518
AnomalyNoProvider ==
    /\ anomaly_pc = "branch"
    /\ ~nixtla_client
    /\ anomaly_pc' = "done"
    /\ anomaly_result' = EmptyAnomalyResult
    /\ UNCHANGED <<request, nixtla_client, forecast_vars, arbitrage_vars, anomalies_df>>

\* lines 487-494, 512-515: the call answers, or raises and the empty result is returned
AnomalyProviderCall ==
    /\ anomaly_pc = "branch"
    /\ nixtla_client
    /\ \/ /\ \E rows \in AnomalyAnswers(AnomalyFrame(request.market_data)) :
                anomalies_df' = [raised |-> FALSE, rows |-> rows]
          /\ anomaly_pc' = "convert"
          /\ UNCHANGED anomaly_result
       \/ /\ anomalies_df' = [raised |-> TRUE, rows |-> <<>>]
          /\ anomaly_pc' = "done"
          /\ anomaly_result' = EmptyAnomalyResult
    /\ UNCHANGED <<request, nixtla_client, forecast_vars, arbitrage_vars>>

\* lines 496-510
AnomalyConvert ==
    /\ anomaly_pc = "convert"
    /\ anomaly_pc' = "done"
    /\ anomaly_result' = AnomalyResult(anomalies_df.rows, AnomalyFrame(request.market_data))
    /\ UNCHANGED <<request, nixtla_client, forecast_vars, arbitrage_vars, anomalies_df>>

AnomalyNext ==
    \/ AnomalyPrepare
    \/ AnomalyNoProvider
    \/ AnomalyProviderCall
    \/ AnomalyConvert

AnomalySpec == AnomalyInit /\ [][AnomalyNext]_vars

-----------------------------------------------------------------------------
(* Claims                                                                   *)

Done == pc = "done"
Responded == Done /\ outcome = "response"

ForecastPoints == ForecastOnly(response.forecasts)

LevelsRequested == LevelSet(request.confidence_levels)

\* the guards of the actions: some step can be taken
SomeStepEnabled ==
    \/ pc \in {"load", "normalize", "assemble", "inner_except", "outer", "outer_synth"}
    \/ pc = "check_len" /\ Len(price_df["energy_price"]) < MinProviderPoints
    \/ pc = "check_len" /\ Len(price_df["energy_price"]) >= MinProviderPoints
    \/ pc \in {"dispatch", "call_hash", "call_token"} /\ ProviderEnabled
    \/ pc = "dispatch" /\ ~ProviderEnabled

\* C1: a request carrying at least one market_data point is always answered with a
\* ForecastResponse, never with an exception, whatever the store, the provider and the
\* market-data API do: no step is stuck before the end, the end is a response, and a
\* response that came through the outer handler is tagged "synthetic".
C1_AlwaysAnswers ==
    Len(request.market_data) >= 1 =>
        /\ outcome # "error"
        /\ ~Done => SomeStepEnabled
        /\ Done => outcome = "response"
        /\ (Done /\ outer_entered) => response.model = "synthetic"

\* C2: on every path the number of is_historical = false points of the response
\* equals the requested horizon.
C2_HorizonPoints == Responded => Len(ForecastPoints) = request.horizon

C2_Witness ==
    /\ Responded
    /\ response.model = "synthetic"
    /\ provider_failed
    /\ request.horizon = 2
    /\ Len(ForecastPoints) = 2
    /\ Len(response.forecasts) > 2

\* C3: a series of fewer than 100 points is backfilled before the provider is tried,
\* and every series a provider call receives has at least 100 de-duplicated points.
C3_ProviderGetsHundredPoints ==
    \A q \in QuantitySet :
        provider_calls[q] > 0 =>
            /\ Len(drop_duplicates(ToSeries(historical_data, q))) < MinProviderPoints
                  => backfilled
            /\ Len(price_df[q]) >= MinProviderPoints

\* C4: for every forecast point, quantity and requested level, lo <= point <= hi.
C4_BoundsBracketPoint ==
    Responded =>
        \A i \in 1..Len(ForecastPoints) : \A q \in QuantitySet : \A l \in LevelsRequested :
            LET f == ForecastPoints[i]
            IN  /\ RLe(f.bounds[<<q, "lo", l>>], f.price[q])
                /\ RLe(f.price[q], f.bounds[<<q, "hi", l>>])

\* C5: the response lists the historical points in time order, then the forecast
\* points in time order: no historical point after a forecast point, timestamps
\* never decrease, every forecast timestamp is later than every historical one.
C5_HistoricalThenForecastInTimeOrder ==
    Responded =>
        LET f == response.forecasts
        IN  /\ \A i, j \in 1..Len(f) : (i < j /\ ~f[i].is_historical) => ~f[j].is_historical
            /\ \A i \in 1..(Len(f) - 1) : f[i].timestamp <= f[i + 1].timestamp
            /\ \A i, j \in 1..Len(f) :
                  (f[i].is_historical /\ ~f[j].is_historical) => f[i].timestamp < f[j].timestamp

\* C6: no tier is attempted twice within one request: at most one provider call per
\* quantity and none after a provider failure, at most one market-data API call, at
\* most one execution of the synthetic forecast.
C6_SingleAttemptPerTier ==
    /\ [](/\ \A q \in QuantitySet : provider_calls[q] <= 1
          /\ mara_calls <= 1
          /\ synth_calls <= 1)
    /\ [][provider_failed => provider_calls' = provider_calls]_vars

AllProviderCallsMade == \A q \in QuantitySet : provider_calls[q] = 1

\* C7: model is "timegpt-1" exactly when the three provider calls and the assembly
\* succeeded, and "synthetic" otherwise: provider not configured, no data, or a
\* provider call or the assembly raised.
C7_ModelNamesThePath ==
    Responded =>
        /\ response.model \in {"synthetic", "timegpt-1"}
        /\ response.model = "timegpt-1" <=>
              (nixtla_client /\ AllProviderCallsMade /\ ~provider_failed /\ ~outer_entered)
        /\ (~nixtla_client \/ historical_data = <<>> \/ provider_failed)
              => response.model = "synthetic"

C7_Witness ==
    /\ Responded
    /\ response.model = "timegpt-1"
    /\ AllProviderCallsMade
    /\ backfilled

\* C8: on the provider path every forecast point has a lo and a hi for every
\* quantity and requested level: 0.9 / 1.1 times the point when the quantity's answer
\* has none of the recognised column names for the level, else the provider's value.
C8_ProviderBoundsOrProxy ==
    (Responded /\ response.model = "timegpt-1") =>
        \A i \in 1..Len(ForecastPoints) : \A q \in QuantitySet :
        \A side \in {"lo", "hi"} : \A l \in LevelsRequested :
            LET f == ForecastPoints[i]
                answer == provider_forecast[q]
                recognised == {<<"TimeGPT-", side, l, "int">>, <<"TimeGPT-", side, l, "float">>,
                               <<"", side, l, "int">>} \cap answer.columns
                point == answer.rows[i].val[PointColumn]
            IN  /\ <<q, side, l>> \in DOMAIN f.bounds
                /\ IF recognised = {}
                     THEN f.bounds[<<q, side, l>>] =
                             RMul(point, IF side = "lo" THEN Rat(9, 10) ELSE Rat(11, 10))
                     ELSE \E c \in recognised : f.bounds[<<q, side, l>>] = answer.rows[i].val[c]

C8_Witness ==
    /\ Responded
    /\ response.model = "timegpt-1"
    /\ provider_env.scheme = "first"
    /\ request.confidence_levels = <<80, 95>>
    /\ \E i \in 1..Len(ForecastPoints) :
          LET f == ForecastPoints[i]
              p == f.price["hash_price"]
          IN  /\ p # Zero
              /\ f.bounds[<<"hash_price", "lo", 95>>] = RMul(p, Rat(9, 10))
              /\ f.bounds[<<"hash_price", "lo", 80>>] = RSub(p, Rat(2, 5))

\* C9: the trend of a quantity is (last value - value 12 positions before the last
\* point) / 12 for a series of at least 13 points, and 0 for 12 points or fewer.
C9_TrendOverTwelveSteps ==
    (Done /\ synth_calls >= 1) =>
        \A q \in QuantitySet :
            LET col == ColumnNames(synth_df)[q]
                n == Len(synth_df.rows)
            IN  /\ n >= 13 =>
                      RMul(synth_trend[q], Rat(12, 1)) =
                          RSub(synth_df.rows[n][col], synth_df.rows[n - 12][col])
                /\ n <= 12 => synth_trend[q] = Zero

\* C10: on the synthetic path lo = value * (1 - u) and hi = value * (1 + u) with
\* u = (100 - level) / 100 * 0.5, so that the width hi - lo at a lower level is at
\* least the width at a higher level.
C10_SyntheticBounds ==
    (Responded /\ response.model = "synthetic") =>
        \A i \in 1..Len(ForecastPoints) : \A q \in QuantitySet :
            LET f == ForecastPoints[i]
                width(l) == RSub(f.bounds[<<q, "hi", l>>], f.bounds[<<q, "lo", l>>])
            IN  /\ \A l \in LevelsRequested :
                      /\ RMul(f.bounds[<<q, "lo", l>>], Rat(200, 1))
                            = RMul(f.price[q], Rat(100 + l, 1))
                      /\ RMul(f.bounds[<<q, "hi", l>>], Rat(200, 1))
                            = RMul(f.price[q], Rat(300 - l, 1))
                /\ \A l1, l2 \in LevelsRequested : l1 < l2 => RLe(width(l2), width(l1))

C10_Witness ==
    /\ Responded
    /\ response.model = "synthetic"
    /\ request.confidence_levels = <<80, 95>>
    /\ \E i \in 1..Len(ForecastPoints) :
          LET f == ForecastPoints[i]
          IN  /\ f.bounds[<<"energy_price", "lo", 80>>] = RMul(f.price["energy_price"], Rat(9, 10))
              /\ RLt(RSub(f.bounds[<<"energy_price", "hi", 95>>], f.bounds[<<"energy_price", "lo", 95>>]),
                     RSub(f.bounds[<<"energy_price", "hi", 80>>], f.bounds[<<"energy_price", "lo", 80>>]))

EnergyForecastValues == Column(ForecastPoints, "energy_price")

\* C11: statistics.std is the population standard deviation (divisor n) of the energy
\* values of the forecast points, mean / min / max are taken over the same values, and
\* the arbitrage heuristic works with the same standard deviation.
C11_PopulationStatistics ==
    (Responded /\ Len(ForecastPoints) >= 1) =>
        LET v == EnergyForecastValues
            n == Len(v)
            st == response.statistics
            deviations == [i \in 1..n |-> RMul(RSub(v[i], st.mean), RSub(v[i], st.mean))]
        IN  /\ RMul(st.mean, Rat(n, 1)) = RSum(v)
            /\ \E i \in 1..n : v[i] = st.min
            /\ \E i \in 1..n : v[i] = st.max
            /\ \A i \in 1..n : RLe(st.min, v[i]) /\ RLe(v[i], st.max)
            /\ st.std.radicand = RMul(RSum(deviations), Rat(1, n))
            /\ st.std = np_std(v)

\* C12: every response has the same shape: its statistics hold mean, std, min, max,
\* trend, hash_mean and token_mean, and its historical points have the fields that
\* the historical points of a synthetic response have (no bound fields).
C12_SameShapeOnEveryPath ==
    Responded =>
        /\ DOMAIN response.statistics =
              {"mean", "std", "min", "max", "trend", "hash_mean", "token_mean"}
        /\ \A i \in 1..Len(response.forecasts) :
              response.forecasts[i].is_historical =>
                  DOMAIN response.forecasts[i].bounds = DOMAIN NoBounds

\* C13: the arbitrage count is the number of values v with v > mean + 1.5 * std or
\* v < mean - 1.5 * std, mean and std taken over the same values, and 0 for fewer
\* than 2 values.  (v - mean)^2 > 2.25 * std^2 says the same without the root.
C13_ArbitrageCount ==
    arbitrage_pc = "return" =>
        LET v == arbitrage_input
            n == Len(v)
            mean == RMul(RSum(v), Rat(1, n))
            dev(i) == RSub(v[i], mean)
            variance == RMul(RSum([i \in 1..n |-> RMul(dev(i), dev(i))]), Rat(1, n))
            outside == {i \in 1..n :
                           RLt(RMul(Rat(9, 4), variance), RMul(dev(i), dev(i)))}
        IN  IF n < 2 THEN opportunities = 0
            ELSE opportunities = Cardinality(outside)

C13_Witness ==
    /\ arbitrage_pc = "return"
    /\ arbitrage_input = <<Rat(5, 1), Rat(5, 1), Rat(1, 10), Rat(5, 1)>>
    /\ opportunities = 1

\* C14: the anomaly operation returns the empty result, and no error, whenever the
\* provider is not configured or its detect_anomalies call raised; every result it
\* returns has total_anomalies = number of anomalies and a rate within [0, 1].
C14_AnomaliesEmptyOnFailure ==
    anomaly_pc = "done" =>
        /\ (~nixtla_client \/ anomalies_df.raised) => anomaly_result = EmptyAnomalyResult
        /\ anomaly_result.status = "ok" =>
              /\ anomaly_result.total_anomalies = Len(anomaly_result.anomalies)
              /\ RLe(Zero, anomaly_result.anomaly_rate)
              /\ RLe(anomaly_result.anomaly_rate, Rat(1, 1))

\* the convention of a frame, by its price columns: canonical, then legacy, then generic
OwnColumns(df) ==
    LET time_col == IF "timestamp" \in df.columns THEN "timestamp" ELSE "ds"
    IN  IF "energy_price" \in df.columns
          THEN [time_col |-> time_col, energy_price |-> "energy_price",
                hash_price |-> "hash_price", token_price |-> "token_price"]
        ELSE IF "energyPrice" \in df.columns
          THEN [time_col |-> time_col, energy_price |-> "energyPrice",
                hash_price |-> "hashPrice", token_price |-> "tokenPrice"]
        ELSE [time_col |-> time_col, energy_price |-> "y", hash_price |-> "y",
              token_price |-> "y"]

HistoricalPoints == SelectSeq(response.forecasts, LAMBDA f : f.is_historical)

\* C15: for a frame in the canonical, the legacy or the generic {ds, y} naming, the
\* last known value, the trend and the historical points of every quantity are read
\* from the frame's own columns (the one y series for all three quantities of a
\* generic frame), and every point of the output has the three quantity keys.
C15_OwnColumnsOfEachConvention ==
    (Done /\ outcome = "response" /\ response.model = "synthetic") =>
        LET own == OwnColumns(synth_df)
            rows == synth_df.rows
            n == Len(rows)
            tail == Tail_n(rows, Min2(HistoricalTail, n))
            first == ForecastPoints[1]
        IN  /\ \A i \in 1..Len(response.forecasts) :
                  DOMAIN response.forecasts[i].price = QuantitySet
            /\ Len(HistoricalPoints) = Len(tail)
            /\ \A i \in 1..Len(HistoricalPoints) : \A q \in QuantitySet :
                  /\ HistoricalPoints[i].price[q] = tail[i][own[q]]
                  /\ HistoricalPoints[i].timestamp = tail[i][own.time_col]
            /\ \A q \in QuantitySet :
                  /\ n <= TrendLookback => synth_trend[q] = Zero
                  /\ n > TrendLookback =>
                        \E k \in 1..(n - 1) :
                            synth_trend[q] = RDivInt(RSub(rows[n][own[q]], rows[k][own[q]]),
                                                     TrendLookback)
                  /\ \E seed \in 0..MaxNoiseSeed :
                        first.price[q] =
                            RMax(PriceFloor(q),
                                 RAdd(RMul(rows[n][own[q]], DailyMultiplier(first.timestamp)),
                                      Noise(seed, 0, q)))

\* C16: after a failed provider attempt the synthetic response holds the historical
\* segment the provider response would have held: the last min(50, n) points of the
\* de-duplicated, backfilled series, each historical and without a non-null bound.
C16_FallbackKeepsHistoricalTail ==
    (Responded /\ provider_failed /\ ~outer_entered) =>
        LET expected == ProviderHistorical(price_df, request.confidence_levels)
        IN  /\ Len(HistoricalPoints) = Len(expected)
            /\ \A i \in 1..Len(HistoricalPoints) :
                  /\ HistoricalPoints[i].is_historical
                  /\ HistoricalPoints[i].timestamp = expected[i].timestamp
                  /\ HistoricalPoints[i].price = expected[i].price
                  /\ \A k \in DOMAIN HistoricalPoints[i].bounds :
                        HistoricalPoints[i].bounds[k] = NULL

\* the series are final: de-duplicated and, where needed, backfilled
SeriesNormalized == pc \in {"dispatch", "call_hash", "call_token", "assemble", "inner_except"}

\* C17: once de-duplicated and backfilled, every per-quantity series has strictly
\* increasing timestamps, hence no duplicates, and for a timestamp that occurred
\* more than once in the list it was built from, the later occurrence's value.
C17_SeriesStrictlyIncreasing ==
    SeriesNormalized =>
        \A q \in QuantitySet :
            LET series == price_df[q]
                source == price_data[q]
            IN  /\ \A i \in 1..(Len(series) - 1) : series[i].ds < series[i + 1].ds
                /\ \A i \in 1..Len(series) : \A j \in 1..Len(source) :
                      (source[j].ds = series[i].ds /\
                       \A m \in (j + 1)..Len(source) : source[m].ds # series[i].ds)
                          => series[i].y = source[j].y

\* the outer handler has chosen its replacement series
OuterSourced == outer_entered /\ pc \in {"outer_synth", "done"}

\* C18, as stated: in the outer fallback the market-data API is called first and the
\* series is rebuilt from request.market_data only if that call raised or returned a
\* non-success status; the API is not called unless the main pipeline raised before
\* a response was returned.
C18_RequestOnlyAfterFailedCall ==
    /\ mara_calls >= 1 => outer_entered
    /\ pc \in {"outer", "outer_synth"} => outcome = "pending"
    /\ OuterSourced =>
          /\ mara_calls = 1
          /\ synth_df = RequestFrame(request.market_data)
                => mara_outcome \in {"raise", "non200"}

\* C18, amended: the series is rebuilt from request.market_data only if the call
\* raised, returned a non-success status, or returned status 200 with a payload whose
\* processing raised (here an empty list); a usable payload is the series used.
C18_RequestOnlyAfterFailedFetch ==
    /\ mara_calls >= 1 => outer_entered
    /\ pc \in {"outer", "outer_synth"} => outcome = "pending"
    /\ pc = "outer" => mara_calls = 0
    /\ OuterSourced =>
          /\ mara_calls = 1
          /\ synth_df = RequestFrame(request.market_data)
                => mara_outcome \in {"raise", "non200", "ok_empty"}
          /\ mara_outcome = "ok" => synth_df = MaraFrame(MaraPayload)

C18_Witness ==
    /\ Responded
    /\ outer_entered
    /\ mara_calls = 1
    /\ mara_outcome = "ok_empty"
    /\ Len(request.market_data) = 3
    /\ synth_df = RequestFrame(request.market_data)
    /\ response.model = "synthetic"

====
